---- MODULE Spec2Model ----
(***************************************************************************)
(* VectorStoreCreator (src/vectorstores_creator.py): the create-or-load    *)
(* decision of the constructor, the conditional rebuild of                 *)
(* update_vectorstore and the two getters, over a file system that holds   *)
(* the knowledge directory and the saved index.                            *)
(*                                                                         *)
(* A document is a name with a length in characters (0: the file is not    *)
(* there); a chunk is <<name, start, end>>; the content of an index is the *)
(* set of chunks it was built from.  Every vectorstore object built or     *)
(* loaded gets a fresh identity, so that two objects with equal content    *)
(* are still told apart.                                                   *)
(***************************************************************************)
EXTENDS Naturals, FiniteSets

\* ---------------------------------------------------------------- bounds
MaxLen == 2

DocNames == {"a", "b"}

\* The longest text a file holds: "a" is the long document, "b" a short
\* note of at most one character.
MaxLenOf(d) == IF d = "a" THEN MaxLen ELSE 1

\* <<chunk_size, chunk_overlap>> given to the constructor, scaled down from
\* the defaults (5000, 500) and the example (4000, 300); overlap < size.
ChunkConfigs == {<<1, 0>>, <<2, 1>>}

\* k given to the constructor: the default and the example's value.
KValues == {5, 3}

\* Identities of vectorstore objects; at most two are referenced at a time.
ObjectIds == {1, 2, 3}

\* ----------------------------------------------------------------- state
VARIABLES
    kpExists,      \* os.path.exists(knowledge_path)
    docs,          \* knowledge_path: the length of each loadable file, 0 when absent
    hidden,        \* knowledge_path holds an entry the loader yields nothing for
    dbDir,         \* the directory db_path exists
    store,         \* what is at db_path/db_name: [exists, content]
    alive,         \* a constructed VectorStoreCreator is held by the caller
    chunk_size,    \* self.chunk_size
    chunk_overlap, \* self.chunk_overlap
    k,             \* self.k
    vectorstore,   \* self.vectorstore: [id, content]
    retriever,     \* self.retriever: [vs, search_type, k]
    tampered,      \* db_path/db_name was modified from outside since construction
    indexedDocs,   \* the documents the index at db_path/db_name was built from
    returned,      \* what the last getter call returned
    last           \* the last call: [op, force, result, branch, docsRead]

vars == <<kpExists, docs, hidden, dbDir, store, alive, chunk_size, chunk_overlap,
          k, vectorstore, retriever, tampered, indexedDocs, returned, last>>

fsVars == <<kpExists, docs, hidden, dbDir, store>>
selfVars == <<alive, chunk_size, chunk_overlap, k, vectorstore, retriever>>

NoIndex == [exists |-> FALSE, content |-> {}]
NoVectorstore == [id |-> 0, content |-> {}]
NoRetriever == [vs |-> 0, search_type |-> "none", k |-> 0]
\* An index whose source documents this run has not seen.
UnknownDocs == [known |-> FALSE, docs |-> [d \in DocNames |-> 0]]
NoReturn == [kind |-> "none", vectordb |-> NoVectorstore, retriever |-> NoRetriever]
NoCall == [op |-> "none", force |-> FALSE, result |-> "none", branch |-> "none",
           docsRead |-> FALSE]

Min(x, y) == IF x < y THEN x ELSE y

\* ------------------------------------------------------- pure operations

\* RecursiveCharacterTextSplitter(chunk_size, chunk_overlap) on one document
\* of length len: windows of at most size characters, each starting
\* size - overlap after the one before, until the text is covered.
SplitText(name, len, size, overlap) ==
    { <<name, s, Min(s + size, len)>> :
        s \in { i \in 0..(len - 1) :
                  /\ i % (size - overlap) = 0
                  /\ (i = 0 \/ i + overlap < len) } }

\* _chunk_documents: split_documents over the loaded documents.
ChunkDocuments(documents, kdocs, size, overlap) ==
    UNION { SplitText(d, kdocs[d], size, overlap) : d \in documents }

\* os.listdir(knowledge_path) is empty.
ListdirEmpty(kdocs, hid) == (\A d \in DocNames : kdocs[d] = 0) /\ ~hid

\* _load_documents: [] for an empty folder, else what the loader yields.
LoadDocuments(kdocs, hid) ==
    IF ListdirEmpty(kdocs, hid) THEN {} ELSE { d \in DocNames : kdocs[d] > 0 }

\* FAISS.from_documents(documents, embedding): a new index over the chunks.
FromDocuments(chunks, id) == [id |-> id, content |-> chunks]

\* save_local that adds to the index already at the path.
SaveLocalMerged(vectordb, st) ==
    [exists |-> TRUE, content |-> st.content \cup vectordb.content]

\* save_local left out.
SaveLocalSkipped(vectordb, st) == st

\* vectordb.save_local(full_db_path): the files of the index are written
\* over whatever is there.
SaveLocal(vectordb, st) == [exists |-> TRUE, content |-> vectordb.content]

\* FAISS.load_local(full_db_path, ...): a new object with the stored content.
LoadLocal(st, id) == [id |-> id, content |-> st.content]

\* vectordb.as_retriever(search_type="similarity", search_kwargs={"k": self.k})
AsRetriever(vectordb, kk) == [vs |-> vectordb.id, search_type |-> "similarity", k |-> kk]

\* The identity of a newly allocated vectorstore object: one that no object
\* still referenced has.
FreshId(vs, retr) == CHOOSE i \in ObjectIds : i \notin {vs.id, retr.vs}

\* ------------------------------------------------------------ the methods

\* The outcome of a method body: the exception that left it (or "ok"), the
\* local vectordb at that point, what is at db_path/db_name afterwards and
\* whether _load_documents was called.
Raised(exc, at, vectordb, st, read) ==
    [result |-> exc, raisedAt |-> at, vectordb |-> vectordb, store |-> st,
     docsRead |-> read]

Returned(vectordb, st, read) ==
    [result |-> "ok", raisedAt |-> "none", vectordb |-> vectordb, store |-> st,
     docsRead |-> read]

\* documents = self._load_documents(): os.listdir raises FileNotFoundError
\* when the folder is gone; the loader runs only on a non-empty folder.
LoadOutcome(kp, kdocs, hid, fail) ==
    IF ~kp THEN [raised |-> "FileNotFoundError", documents |-> {}]
    ELSE IF ~ListdirEmpty(kdocs, hid) /\ fail = "loader"
         THEN [raised |-> "LoaderError", documents |-> {}]
    ELSE [raised |-> "none", documents |-> LoadDocuments(kdocs, hid)]

\* documents = self._chunk_documents(documents)
\* vectordb = FAISS.from_documents(documents, embedding=...)   (raises on
\*            an empty list: there is no first embedding to size the index)
\* vectordb.save_local(full_db_path)
ChunkBuildSave(documents, kdocs, size, overlap, st, id, fail) ==
    LET chunks == ChunkDocuments(documents, kdocs, size, overlap)
        vectordb == FromDocuments(chunks, id)
    IN  IF fail = "splitter"
          THEN Raised("SplitterError", "_chunk_documents", NoVectorstore, st, TRUE)
        ELSE IF chunks = {}
          THEN Raised("IndexError", "from_documents", NoVectorstore, st, TRUE)
        ELSE IF fail = "from_documents"
          THEN Raised("EmbeddingError", "from_documents", NoVectorstore, st, TRUE)
        ELSE IF fail = "save_local"
          THEN Raised("OSError", "save_local", vectordb, st, TRUE)
        ELSE Returned(vectordb, SaveLocal(vectordb, st), TRUE)

\* The existence test of line 74 taken the wrong way round.
CreateBranchInverted(st) == IF st.exists THEN "create" ELSE "load"

\* if not os.path.exists(full_db_path)  (line 74)
CreateBranch(st) == IF ~st.exists THEN "create" ELSE "load"

\* The emptiness test of line 78 left out.
NoDocumentsUnchecked(documents) == FALSE

\* if not documents: raise ValueError  (line 78)
NoDocuments(documents) == documents = {}

\* _create_vectorstore
CreateVectorstore(kp, kdocs, hid, size, overlap, st, id, fail) ==
    IF CreateBranch(st) = "create"
    THEN LET l == LoadOutcome(kp, kdocs, hid, fail)
         IN  IF l.raised # "none"
               THEN Raised(l.raised, "_load_documents", NoVectorstore, st, TRUE)
             ELSE IF NoDocuments(l.documents)
               THEN Raised("ValueError", "_create_vectorstore", NoVectorstore, st, TRUE)
             ELSE ChunkBuildSave(l.documents, kdocs, size, overlap, st, id, fail)
    ELSE IF fail = "load_local"
           THEN Raised("LoadError", "load_local", NoVectorstore, st, FALSE)
         ELSE Returned(LoadLocal(st, id), st, FALSE)

\* The existence test of line 31 left out.
KnowledgeMissingUnchecked(kp) == FALSE

\* if not os.path.exists(knowledge_path): raise FileNotFoundError  (line 31)
KnowledgeMissing(kp) == ~kp

\* The test of line 102 without its second disjunct.
UpdateBranchForceOnly(force_rebuild, st) ==
    IF force_rebuild THEN "rebuild" ELSE "skip"

\* if force_rebuild or not os.path.exists(full_db_path)  (line 102)
UpdateBranch(force_rebuild, st) ==
    IF force_rebuild \/ ~st.exists THEN "rebuild" ELSE "skip"

\* update_vectorstore, lines 104-107
Rebuild(kp, kdocs, hid, size, overlap, st, id, fail) ==
    LET l == LoadOutcome(kp, kdocs, hid, fail)
    IN  IF l.raised # "none"
          THEN Raised(l.raised, "_load_documents", NoVectorstore, st, TRUE)
        ELSE ChunkBuildSave(l.documents, kdocs, size, overlap, st, id, fail)

\* self.vectorstore assigned as soon as the index is built, before it is
\* saved.
UpdateAssignBeforeSave(r, old) ==
    IF r.vectordb # NoVectorstore THEN r.vectordb ELSE old

\* self.vectorstore = vectordb  (line 108): reached only when nothing
\* before it raised.
UpdateAssign(r, old) == IF r.result = "ok" THEN r.vectordb ELSE old

\* Line 109 left out: the retriever of the previous vectorstore is kept.
UpdateRetrieverKept(r, old, kk) == old

\* self.retriever = vectordb.as_retriever(... {"k": self.k})  (line 109)
UpdateRetriever(r, old, kk) ==
    IF r.result = "ok" THEN AsRetriever(r.vectordb, kk) ELSE old

\* ---------------------------------------------------------------- actions

\* The library calls that may raise for reasons outside the program (I/O, a
\* file that cannot be parsed, the embedding model), by the branch that
\* makes them; "none": no call raises.
FailPoints(branch) ==
    IF branch \in {"create", "rebuild"}
    THEN {"none", "loader", "splitter", "from_documents", "save_local"}
    ELSE IF branch = "load" THEN {"none", "load_local"}
    ELSE {"none"}

Call(op, force, result, branch, read) ==
    [op |-> op, force |-> force, result |-> result, branch |-> branch,
     docsRead |-> read]

\* VectorStoreCreator(knowledge_path, db_name, db_path, chunk_size,
\* chunk_overlap, k): __init__, lines 30-55.  A constructor that raises
\* yields no object; the caller keeps what it held.
Construct ==
    \E cfg \in ChunkConfigs, kk \in KValues, fail \in FailPoints(CreateBranch(store)) :
        /\ dbDir' = TRUE
        /\ UNCHANGED <<kpExists, docs, hidden>>
        /\ returned' = NoReturn
        /\ IF KnowledgeMissing(kpExists)
           THEN /\ last' = Call("construct", FALSE, "FileNotFoundError", "none", FALSE)
                /\ UNCHANGED <<store, selfVars, tampered, indexedDocs>>
           ELSE LET r == CreateVectorstore(kpExists, docs, hidden, cfg[1], cfg[2], store,
                                           FreshId(vectorstore, retriever), fail)
                IN  /\ store' = r.store
                    /\ indexedDocs' = IF r.result = "ok" /\ r.docsRead
                                      THEN [known |-> TRUE, docs |-> docs]
                                      ELSE indexedDocs
                    /\ last' = Call("construct", FALSE, r.result, CreateBranch(store),
                                    r.docsRead)
                    /\ IF r.result = "ok"
                       THEN /\ alive' = TRUE
                            /\ chunk_size' = cfg[1]
                            /\ chunk_overlap' = cfg[2]
                            /\ k' = kk
                            /\ vectorstore' = r.vectordb
                            /\ retriever' = AsRetriever(r.vectordb, kk)
                            /\ tampered' = FALSE
                       ELSE UNCHANGED <<selfVars, tampered>>

\* update_vectorstore(force_rebuild), lines 100-112.
UpdateVectorstore ==
    \E force_rebuild \in BOOLEAN :
    \E fail \in FailPoints(UpdateBranch(force_rebuild, store)) :
        /\ alive
        /\ UNCHANGED <<kpExists, docs, hidden, dbDir, alive, chunk_size, chunk_overlap,
                       k, tampered>>
        /\ returned' = NoReturn
        /\ IF UpdateBranch(force_rebuild, store) = "rebuild"
           THEN LET r == Rebuild(kpExists, docs, hidden, chunk_size, chunk_overlap, store,
                                 FreshId(vectorstore, retriever), fail)
                IN  /\ store' = r.store
                    /\ indexedDocs' = IF r.result = "ok"
                                      THEN [known |-> TRUE, docs |-> docs]
                                      ELSE indexedDocs
                    /\ vectorstore' = UpdateAssign(r, vectorstore)
                    /\ retriever' = UpdateRetriever(r, retriever, k)
                    /\ last' = Call("update", force_rebuild, r.result, "rebuild", r.docsRead)
           ELSE /\ UNCHANGED <<store, vectorstore, retriever, indexedDocs>>
                /\ last' = Call("update", force_rebuild, "ok", "skip", FALSE)

\* load_vectordb, lines 114-116
LoadVectordb ==
    /\ alive
    /\ returned' = [kind |-> "vectordb", vectordb |-> vectorstore, retriever |-> NoRetriever]
    /\ last' = Call("load_vectordb", FALSE, "ok", "none", FALSE)
    /\ UNCHANGED <<fsVars, selfVars, tampered, indexedDocs>>

\* load_retriever, lines 118-120
LoadRetriever ==
    /\ alive
    /\ returned' = [kind |-> "retriever", vectordb |-> NoVectorstore, retriever |-> retriever]
    /\ last' = Call("load_retriever", FALSE, "ok", "none", FALSE)
    /\ UNCHANGED <<fsVars, selfVars, tampered, indexedDocs>>

\* ------------------------------------------------------- the environment
EnvCall == Call("env", FALSE, "none", "none", FALSE)

\* A file of knowledge_path is added, rewritten or removed.
WriteDocument ==
    \E d \in DocNames :
    \E len \in 0..MaxLenOf(d) :
        /\ kpExists
        /\ len # docs[d]
        /\ docs' = [docs EXCEPT ![d] = len]
        /\ last' = EnvCall
        /\ returned' = NoReturn
        /\ UNCHANGED <<kpExists, hidden, dbDir, store, selfVars, tampered, indexedDocs>>

\* An entry the loader skips (a hidden file, an empty sub-folder) is added
\* to or removed from knowledge_path.
ToggleHidden ==
    /\ kpExists
    /\ hidden' = ~hidden
    /\ last' = EnvCall
    /\ returned' = NoReturn
    /\ UNCHANGED <<kpExists, docs, dbDir, store, selfVars, tampered, indexedDocs>>

\* knowledge_path is removed with all it holds.
RemoveKnowledgeDir ==
    /\ kpExists
    /\ kpExists' = FALSE
    /\ docs' = [d \in DocNames |-> 0]
    /\ hidden' = FALSE
    /\ last' = EnvCall
    /\ returned' = NoReturn
    /\ UNCHANGED <<dbDir, store, selfVars, tampered, indexedDocs>>

\* knowledge_path is created, empty.
MakeKnowledgeDir ==
    /\ ~kpExists
    /\ kpExists' = TRUE
    /\ last' = EnvCall
    /\ returned' = NoReturn
    /\ UNCHANGED <<docs, hidden, dbDir, store, selfVars, tampered, indexedDocs>>

\* Something other than the object removes db_path/db_name.
RemoveIndex ==
    /\ store.exists
    /\ store' = NoIndex
    /\ tampered' = TRUE
    /\ indexedDocs' = UnknownDocs
    /\ last' = EnvCall
    /\ returned' = NoReturn
    /\ UNCHANGED <<kpExists, docs, hidden, dbDir, selfVars>>

\* ------------------------------------------------------- specification

DocStates == { ds \in [DocNames -> 0..MaxLen] : \A d \in DocNames : ds[d] <= MaxLenOf(d) }

\* What an index left at db_path/db_name by an earlier run may hold.
EarlierIndexes ==
    { [exists |-> TRUE,
       content |-> ChunkDocuments(LoadDocuments(ds, FALSE), ds, cfg[1], cfg[2])] :
        ds \in DocStates \ {[d \in DocNames |-> 0]}, cfg \in ChunkConfigs }

Init ==
    /\ kpExists \in BOOLEAN
    /\ docs \in DocStates
    /\ hidden \in BOOLEAN
    /\ ~kpExists => (docs = [d \in DocNames |-> 0] /\ ~hidden)
    /\ dbDir \in BOOLEAN
    /\ store \in {NoIndex} \cup EarlierIndexes
    /\ ~dbDir => store = NoIndex
    /\ alive = FALSE
    /\ chunk_size = 0
    /\ chunk_overlap = 0
    /\ k = 0
    /\ vectorstore = NoVectorstore
    /\ retriever = NoRetriever
    /\ tampered = FALSE
    /\ indexedDocs = UnknownDocs
    /\ returned = NoReturn
    /\ last = NoCall

Next ==
    \/ Construct
    \/ UpdateVectorstore
    \/ LoadVectordb
    \/ LoadRetriever
    \/ WriteDocument
    \/ ToggleHidden
    \/ RemoveKnowledgeDir
    \/ MakeKnowledgeDir
    \/ RemoveIndex

Spec == Init /\ [][Next]_vars

\* ---------------------------------------------------------------- claims

\* The chunks of the documents now in knowledge_path, split as the object
\* splits them.
CurrentChunks == ChunkDocuments(LoadDocuments(docs, hidden), docs, chunk_size, chunk_overlap)

Getters == {"load_vectordb", "load_retriever"}

\* C1: a construction with an existing knowledge_path takes exactly one of
\* two branches, decided by whether something is at db_path/db_name.  With
\* nothing there it reads the documents and, when it returns, the index of
\* their chunks is saved at the path and held by the object; with something
\* there it reads no document, writes nothing to the path and, when it
\* returns, holds the stored content.
C1_CreateOrLoad ==
    [][ (last'.op = "construct" /\ kpExists) =>
          /\ last'.branch \in {"create", "load"}
          /\ (last'.branch = "create") <=> ~store.exists
          /\ (last'.branch = "create") =>
                /\ last'.docsRead
                /\ (last'.result = "ok") =>
                      /\ store'.exists
                      /\ store'.content = CurrentChunks'
                      /\ vectorstore'.content = CurrentChunks'
          /\ (last'.branch = "load") =>
                /\ ~last'.docsRead
                /\ store' = store
                /\ (last'.result = "ok") => vectorstore'.content = store.content
      ]_vars

C1_Witness ==
    /\ last.op = "construct" /\ last.branch = "create" /\ last.result = "ok"
    /\ alive /\ store.exists /\ vectorstore.content = CurrentChunks

\* C2: after update_vectorstore() with force_rebuild left False returns,
\* the index this program built at db_path/db_name and the vectorstore held
\* by the object are those of the documents now in knowledge_path, also
\* when the documents have changed since the index was built.
C2_UpdateReflectsDocuments ==
    (/\ last.op = "update" /\ ~last.force /\ last.result = "ok"
     /\ ~tampered /\ indexedDocs.known) =>
        /\ indexedDocs.docs = docs
        /\ store.exists
        /\ store.content = CurrentChunks
        /\ vectorstore.content = CurrentChunks

\* C3: after update_vectorstore(force_rebuild=True) returns normally, the
\* index at db_path/db_name and the vectorstore held by the object hold
\* exactly the chunks of the documents now in knowledge_path, whatever was
\* stored before.
C3_ForceRebuildFromScratch ==
    (last.op = "update" /\ last.force /\ last.result = "ok") =>
        /\ store.exists
        /\ store.content = CurrentChunks
        /\ vectorstore.content = CurrentChunks

C3_Witness ==
    /\ last.op = "update" /\ last.force /\ last.result = "ok"
    /\ store.content = CurrentChunks
    /\ \E d \in DocNames : docs[d] = 0

\* C4: once an object exists, its retriever is a similarity retriever over
\* the very vectorstore object it holds, with the constructor's k; each
\* getter returns the field it names and changes nothing.
C4_RetrieverOfVectorstore ==
    [][ /\ alive' =>
              /\ retriever'.vs = vectorstore'.id
              /\ retriever'.search_type = "similarity"
              /\ retriever'.k = k'
        /\ (last'.op = "construct" /\ last'.result = "ok") => k' \in KValues
        /\ (last'.op \notin {"construct", "none"}) => k' = k
        /\ (last'.op \in Getters) =>
              /\ UNCHANGED <<fsVars, selfVars>>
              /\ (last'.op = "load_vectordb") => returned'.vectordb = vectorstore
              /\ (last'.op = "load_retriever") =>
                    /\ returned'.retriever = retriever
                    /\ returned'.retriever.vs = vectorstore.id
                    /\ returned'.retriever.k = k
      ]_vars

C4_Witness ==
    /\ last.op = "load_retriever"
    /\ returned.retriever.vs = vectorstore.id
    /\ vectorstore.id = 2

\* C5: a construction whose knowledge_path does not exist raises
\* FileNotFoundError without reading a document and without taking either
\* branch; it writes no index, yields no object, and leaves the db_path
\* directory in existence as its only effect.
C5_MissingKnowledgePath ==
    [][ (last'.op = "construct" /\ ~kpExists) =>
          /\ last'.result = "FileNotFoundError"
          /\ last'.branch = "none"
          /\ ~last'.docsRead
          /\ dbDir'
          /\ UNCHANGED <<store, kpExists, docs, hidden, selfVars>>
      ]_vars

C5_Witness ==
    /\ last.op = "construct" /\ last.result = "FileNotFoundError"
    /\ ~kpExists /\ dbDir /\ ~alive /\ ~store.exists

\* C6: a construction that finds no index and gets no documents (the
\* folder is empty, or the loader yields nothing) raises ValueError and
\* saves nothing, so the next construction takes the create branch again;
\* with an index at the path the same folder is no error: the load branch
\* is taken and, unless load_local itself fails, the object holds the
\* stored content.
C6_EmptyKnowledgePath ==
    [][ (last'.op = "construct" /\ kpExists /\ LoadDocuments(docs, hidden) = {}) =>
          IF ~store.exists
          THEN /\ \/ last'.result = "ValueError"
                  \/ last'.result = "LoaderError" /\ ~ListdirEmpty(docs, hidden)
               /\ store' = store
               /\ CreateBranch(store') = "create"
               /\ UNCHANGED selfVars
          ELSE /\ last'.branch = "load"
               /\ last'.result \in {"ok", "LoadError"}
               /\ (last'.result = "ok") =>
                     (alive' /\ vectorstore'.content = store.content)
      ]_vars

C6_Witness ==
    /\ last.op = "construct" /\ last.result = "ValueError"
    /\ kpExists /\ hidden /\ ~store.exists

C8_AssignAfterSave ==
    [][ (last'.op = "update") =>
          /\ (last'.result # "ok") => UNCHANGED <<vectorstore, retriever>>
          /\ (vectorstore' # vectorstore \/ retriever' # retriever) =>
                /\ store'.exists
                /\ store'.content = vectorstore'.content
                /\ retriever'.vs = vectorstore'.id
      ]_vars

C8_Witness ==
    /\ last.op = "update" /\ last.result = "IndexError"
    /\ alive /\ kpExists /\ ListdirEmpty(docs, hidden)
    /\ vectorstore.content # {}

====
